---- MODULE Spec2Model ----
(***************************************************************************)
(* The error types generated by the errormake! macro (src/src/lib.rs).     *)
(*                                                                         *)
(* A generated struct N<T> has two fields, source: Option<Box<T>> and      *)
(* description: Option<String>.  The model keeps one instance, x, that the *)
(* constructors build up into a chain, and res, the record of the last     *)
(* operation: its arguments and what it returned.                          *)
(*                                                                         *)
(*   Option<V>   None is <<>>, Some(v) is <<v>>                            *)
(*   Box<V>      [addr |-> a, val |-> v], a the address of the allocation  *)
(*   String      the sequence of its characters                            *)
(*   type        the sequence of its names, outermost first:               *)
(*               N<M<Infallible>> is <<"N", "M", "Infallible">>            *)
(***************************************************************************)
EXTENDS Integers, Sequences, FiniteSets, TLC

VARIABLES x, res

vars == <<x, res>>

(* ------------------------------ bounds -------------------------------- *)

\* The longest chain the constructors build.
MaxDepth == 3

(* --------------------------- text literals ----------------------------- *)

\* "{}\n\nThe above error caused the following error:\n\n" without the {}.
Separator == <<"\n","\n","T","h","e"," ","a","b","o","v","e"," ","e","r","r","o","r"," ","c","a","u","s","e","d"," ","t","h","e"," ","f","o","l","l","o","w","i","n","g"," ","e","r","r","o","r",":","\n","\n">>

\* "No description provided"
Placeholder == <<"N","o"," ","d","e","s","c","r","i","p","t","i","o","n"," ","p","r","o","v","i","d","e","d">>

\* The ": " of concat!(stringify!($structname), ": {}").
ColonSpace == <<":"," ">>

\* The macro invocations of the crate's tests: errormake!(TestingError) and
\* errormake!(pub PublicTestingError).
Names == {"TestingError", "PublicTestingError"}

\* stringify!($structname)
stringify(structname) ==
    IF structname = "TestingError"
    THEN <<"T","e","s","t","i","n","g","E","r","r","o","r">>
    ELSE <<"P","u","b","l","i","c","T","e","s","t","i","n","g","E","r","r","o","r">>

(* ------------------------------ values --------------------------------- *)

None == <<>>
Some(v) == <<v>>

Infallible == <<"Infallible">>
DynError == <<"dyn Error">>
StringTy == <<"String">>

\* struct $structname<T> { source: Option<Box<T>>, description: Option<String> }
Instance(structname, T, source, description) ==
    [name |-> structname, T |-> T, source |-> source, description |-> description]

\* The static type of an instance: $structname<T>.
TypeOf(v) == <<v.name>> \o v.T

Box(a, v) == [addr |-> a, val |-> v]

\* The number of instances of the chain that starts at v.
RECURSIVE Depth(_)
Depth(v) == IF v.source = None THEN 1 ELSE 1 + Depth(v.source[1].val)

\* The addresses of the boxes v owns, directly or through its chain.
RECURSIVE AddrsOf(_)
AddrsOf(v) ==
    IF v.source = None THEN {}
    ELSE {v.source[1].addr} \cup AddrsOf(v.source[1].val)

\* Box::new: the allocation gets an address no live box has (the lowest).
Box_new(v, heap) ==
    Box(CHOOSE a \in 1..(Cardinality(heap) + 1) :
            a \notin heap /\ \A b \in 1..(a - 1) : b \in heap,
        v)

(* ----------------------- which impls a T enables ----------------------- *)

\* T: std::error::Error.  A generated type is an Error when its own T is one
\* (impl<T: Error + 'static>) or is dyn Error (the second impl).
RECURSIVE ImplError(_)
ImplError(T) ==
    CASE T = Infallible -> TRUE
      [] T = DynError -> TRUE
      [] T = StringTy -> FALSE
      [] OTHER -> ImplError(Tail(T))

\* T: Display.  impl<T: Display + ?Sized> Display for $structname<T>.
RECURSIVE ImplDisplay(_)
ImplDisplay(T) ==
    CASE T = Infallible -> TRUE
      [] T = DynError -> TRUE
      [] T = StringTy -> TRUE
      [] OTHER -> ImplDisplay(Tail(T))

\* #[derive(Clone, Eq, Hash, PartialEq)] puts the derived trait's bound on T.
RECURSIVE ImplCloneEqHash(_)
ImplCloneEqHash(T) ==
    CASE T = Infallible -> TRUE
      [] T = DynError -> FALSE
      [] T = StringTy -> TRUE
      [] OTHER -> ImplCloneEqHash(Tail(T))

\* #[derive(Default)] puts T: Default on the impl.
RECURSIVE ImplDefault(_)
ImplDefault(T) ==
    CASE T = Infallible -> FALSE
      [] T = DynError -> FALSE
      [] T = StringTy -> TRUE
      [] OTHER -> ImplDefault(Tail(T))

(* ---------------------------- constructors ----------------------------- *)

new(structname) == Instance(structname, Infallible, None, None)

with_description(structname, description) ==
    Instance(structname, Infallible, None, Some(description))

\* with_source with the type parameter left at Infallible.
with_source_infallible(structname, source, heap) ==
    Instance(structname, Infallible, Some(Box_new(source, heap)), None)

with_source(structname, source, heap) ==
    Instance(structname, TypeOf(source), Some(Box_new(source, heap)), None)

\* with_source_and_description that forgets the description.
with_source_and_description_undescribed(structname, source, description, heap) ==
    Instance(structname, TypeOf(source), Some(Box_new(source, heap)), None)

with_source_and_description(structname, source, description, heap) ==
    Instance(structname, TypeOf(source), Some(Box_new(source, heap)),
             Some(description))

with_optional_data(structname, T, source, description) ==
    Instance(structname, T, source, description)

\* into_dynamic that drops the source.
into_dynamic_sourceless(self) ==
    Instance(self.name, DynError, None, self.description)

\* self.source.map(|source| source as Box<dyn Error>): the same allocation,
\* seen as a trait object.
into_dynamic(self) ==
    Instance(self.name, DynError,
             IF self.source # None THEN Some(self.source[1]) ELSE None,
             self.description)

(* ------------------------------ Display -------------------------------- *)

RECURSIVE fmt(_)
\* fmt that writes the instance before its source: outermost first.
fmt_outermost_first(self) ==
    LET chain == IF self.source # None
                 THEN Separator \o fmt(self.source[1].val)
                 ELSE <<>>
        text == IF self.description # None
                THEN self.description[1]
                ELSE Placeholder
    IN  stringify(self.name) \o ColonSpace \o text \o chain

\* fmt that writes of its source only the source's own line, not the chain
\* behind it.
fmt_one_level(self) ==
    LET line(v) == stringify(v.name) \o ColonSpace \o
                       (IF v.description # None THEN v.description[1]
                        ELSE Placeholder)
    IN  (IF self.source # None
         THEN line(self.source[1].val) \o Separator ELSE <<>>) \o line(self)

fmt(self) ==
    LET chain == IF self.source # None
                 THEN fmt(self.source[1].val) \o Separator
                 ELSE <<>>
        text == IF self.description # None
                THEN self.description[1]
                ELSE Placeholder
    IN  chain \o stringify(self.name) \o ColonSpace \o text

(* ---------------------------- Error::source ---------------------------- *)

\* self.source.as_ref().map(|err| err.as_ref()): a borrow of what the box holds.
\* source() that gives the instance itself as its cause.
source_self(self) ==
    IF self.source # None THEN Some(self) ELSE None

source(self) ==
    IF self.source # None THEN Some(self.source[1].val) ELSE None

(* --------------------------- derived traits ---------------------------- *)

\* Default that takes the description's default for a String's, "".
default_described(structname, T) == Instance(structname, T, None, Some(<<>>))

\* #[derive(Default)]: every field is its type's default, None for an Option.
default(structname, T) == Instance(structname, T, None, None)

\* #[derive(Clone)]: Option<Box<T>>::clone allocates a new box for a clone of
\* what the box holds; the description is copied.
RECURSIVE clone(_, _)
clone(self, heap) ==
    LET src == IF self.source # None
               THEN LET inner == clone(self.source[1].val, heap)
                    IN  Some(Box_new(inner, heap \cup AddrsOf(inner)))
               ELSE None
    IN  Instance(self.name, self.T, src, self.description)

\* #[derive(PartialEq)]: the fields are compared in order; Option compares
\* the presence and then the contents, Box compares what the boxes hold.
RECURSIVE eq(_, _)
\* PartialEq that compares the boxes themselves, addresses included.
eq_by_address(self, other) ==
    /\ self.source = other.source
    /\ self.description = other.description

eq(self, other) ==
    /\ \/ self.source = None /\ other.source = None
       \/ /\ self.source # None
          /\ other.source # None
          /\ eq(self.source[1].val, other.source[1].val)
    /\ self.description = other.description

\* #[derive(Hash)]: what is written to the Hasher, field by field.  An Option
\* writes its discriminant and then its contents, a String its bytes and 0xff.
RECURSIVE hash(_)
\* Hash that writes the address of the box in place of what it holds.
hash_by_address(self) ==
    LET src  == IF self.source # None
                THEN <<"#1", ToString(self.source[1].addr)>>
                ELSE <<"#0">>
        desc == IF self.description # None
                THEN <<"#1">> \o self.description[1] \o <<"0xff">>
                ELSE <<"#0">>
    IN  src \o desc

hash(self) ==
    LET src  == IF self.source # None
                THEN <<"#1">> \o hash(self.source[1].val)
                ELSE <<"#0">>
        desc == IF self.description # None
                THEN <<"#1">> \o self.description[1] \o <<"0xff">>
                ELSE <<"#0">>
    IN  src \o desc

(* ------------------------------ actions -------------------------------- *)

\* The descriptions the callers pass: "d", and a text that holds what fmt
\* itself writes, "TestingError: " and the separator less its last two
\* characters.
Descs ==
    { <<"d">>,
      stringify("TestingError") \o ColonSpace \o
          SubSeq(Separator, 1, Len(Separator) - 2) }

Init ==
    /\ x = None
    /\ res = [op |-> "init"]

New ==
    \E n \in Names :
        /\ x' = Some(new(n))
        /\ res' = [op |-> "new", name |-> n]

WithDescription ==
    \E n \in Names, d \in Descs :
        /\ x' = Some(with_description(n, d))
        /\ res' = [op |-> "with_description", name |-> n, description |-> d]

WithSource ==
    \E n \in Names :
        /\ x # None
        /\ Depth(x[1]) < MaxDepth
        /\ x' = Some(with_source(n, x[1], AddrsOf(x[1])))
        /\ res' = [op |-> "with_source", name |-> n, source |-> x[1]]

WithSourceAndDescription ==
    \E n \in Names, d \in Descs :
        /\ x # None
        /\ Depth(x[1]) < MaxDepth
        /\ x' = Some(with_source_and_description(n, x[1], d, AddrsOf(x[1])))
        /\ res' = [op |-> "with_source_and_description", name |-> n,
                   source |-> x[1], description |-> d]

\* with_optional_data(None, d): T is whatever the caller names.
WithOptionalDataNone ==
    \E n \in Names, T \in {Infallible, DynError, StringTy},
       d \in {None} \cup {Some(t) : t \in Descs} :
        /\ x' = Some(with_optional_data(n, T, None, d))
        /\ res' = [op |-> "with_optional_data", name |-> n, T |-> T,
                   source |-> None, description |-> d]

\* with_optional_data(Some(Box::new(x)), d): the caller boxes x, as its own
\* type or, when x is an Error, as a Box<dyn Error>.
WithOptionalDataSome ==
    \E n \in Names, d \in {None} \cup {Some(t) : t \in Descs} :
        /\ x # None
        /\ Depth(x[1]) < MaxDepth
        /\ \E T \in {TypeOf(x[1])} \cup
                    (IF ImplError(TypeOf(x[1])) THEN {DynError} ELSE {}) :
             LET so == Some(Box_new(x[1], AddrsOf(x[1])))
             IN  /\ x' = Some(with_optional_data(n, T, so, d))
                 /\ res' = [op |-> "with_optional_data", name |-> n, T |-> T,
                            source |-> so, description |-> d]

\* impl<T: Error + 'static>: into_dynamic consumes x.
IntoDynamic ==
    /\ x # None
    /\ x[1].T # DynError
    /\ ImplError(x[1].T)
    /\ x' = Some(into_dynamic(x[1]))
    /\ res' = [op |-> "into_dynamic", self |-> x[1]]

Default ==
    \E n \in Names, T \in {Infallible, DynError, StringTy} :
        /\ ImplDefault(T)
        /\ x' = Some(default(n, T))
        /\ res' = [op |-> "default", name |-> n, T |-> T]

\* Fmt that stores the placeholder it writes.
Fmt_storing_placeholder ==
    /\ x # None
    /\ ImplDisplay(x[1].T)
    /\ res' = [op |-> "fmt", out |-> fmt(x[1])]
    /\ x' = IF x[1].description = None
            THEN Some([x[1] EXCEPT !.description = Some(Placeholder)])
            ELSE x

Fmt ==
    /\ x # None
    /\ ImplDisplay(x[1].T)
    /\ res' = [op |-> "fmt", out |-> fmt(x[1])]
    /\ UNCHANGED x

\* A consumer walks the chain: source() on x, then on what the last call
\* returned.
Source ==
    /\ x # None
    /\ ImplError(x[1].T)
    /\ \/ /\ res.op # "source"
          /\ res' = [op |-> "source", calls |-> 1, ret |-> source(x[1])]
       \/ /\ res.op = "source"
          /\ res.ret # None
          /\ res.calls <= MaxDepth
          /\ res' = [op |-> "source", calls |-> res.calls + 1,
                     ret |-> source(res.ret[1])]
    /\ UNCHANGED x

Clone ==
    /\ x # None
    /\ ImplCloneEqHash(x[1].T)
    /\ res' = [op |-> "clone", val |-> clone(x[1], AddrsOf(x[1]))]
    /\ UNCHANGED x

\* The instances x is compared with: of x's type, with no source, with a
\* copy of x's source, with a source that differs in its description; with
\* no description, x's or another.
Operands(v) ==
    LET heap  == AddrsOf(v)
        inner == v.source[1].val
        copy  == clone(inner, heap)
        differ == with_optional_data(inner.name, inner.T, copy.source,
                      IF inner.description = None
                      THEN Some(CHOOSE d \in Descs : TRUE) ELSE None)
        srcs  == {None} \cup
                 (IF v.source = None THEN {}
                  ELSE { Some(Box_new(copy, heap \cup AddrsOf(copy))),
                         Some(Box_new(differ, heap \cup AddrsOf(differ))) })
        descs == {None, v.description} \cup {Some(d) : d \in Descs}
    IN  { with_optional_data(v.name, v.T, s, d) : s \in srcs, d \in descs }

Eq ==
    /\ x # None
    /\ ImplCloneEqHash(x[1].T)
    /\ \E other \in Operands(x[1]) :
         res' = [op |-> "eq", other |-> other, val |-> eq(x[1], other)]
    /\ UNCHANGED x

Hash ==
    /\ x # None
    /\ ImplCloneEqHash(x[1].T)
    /\ res' = [op |-> "hash", val |-> hash(x[1])]
    /\ UNCHANGED x

Next ==
    \/ New
    \/ WithDescription
    \/ WithSource
    \/ WithSourceAndDescription
    \/ WithOptionalDataNone
    \/ WithOptionalDataSome
    \/ IntoDynamic
    \/ Default
    \/ Fmt
    \/ Source
    \/ Clone
    \/ Eq
    \/ Hash

Spec == Init /\ [][Next]_vars

(* ------------------------ what the claims speak of --------------------- *)

\* The instances of the chain that starts at v, leaf first, v last.
RECURSIVE Nodes(_)
Nodes(v) ==
    IF v.source = None THEN <<v>> ELSE Append(Nodes(v.source[1].val), v)

\* What one instance contributes to a rendering: its type name, ": ", and its
\* description or the placeholder.
Line(v) ==
    stringify(v.name) \o ColonSpace \o
        (IF v.description = None THEN Placeholder ELSE v.description[1])

\* The lines of ns[1..n], in that order, the separator between two of them.
RECURSIVE JoinLines(_, _)
JoinLines(ns, n) ==
    IF n = 1 THEN Line(ns[1])
    ELSE JoinLines(ns, n - 1) \o Separator \o Line(ns[n])

\* The positions of s where p occurs.
Occurrences(p, s) ==
    { i \in 1..(Len(s) - Len(p) + 1) :
        s[i] = p[1] /\ SubSeq(s, i, i + Len(p) - 1) = p }

\* An instance without the addresses of its boxes: what it holds.
RECURSIVE Val(_)
Val(v) ==
    [name |-> v.name, T |-> v.T, description |-> v.description,
     source |-> IF v.source = None THEN None ELSE Some(Val(v.source[1].val))]

ValOpt(so) == IF so = None THEN None ELSE Some(Val(so[1].val))

Has(p, s) == Occurrences(p, s) # {}

\* No description of the chain holds a line break or a ": ".
PlainDescriptions(v) ==
    \A i \in 1..Depth(v) :
        LET d == Nodes(v)[i].description
        IN  d # None => ~Has(<<"\n">>, d[1]) /\ ~Has(ColonSpace, d[1])

ReadOps == {"fmt", "source", "clone", "eq", "hash"}

(* -------------------------------- C1 ----------------------------------- *)

\* C1: the Display rendering of an instance is the rendering of its source
\* followed by the separator, when it has a source, and then its type name,
\* ": " and its description or "No description provided", nothing after it:
\* the lines of the chain from the leaf to the outermost instance.
Thm_C1 ==
    res.op = "fmt" =>
        LET v == x[1]
        IN  /\ res.out = JoinLines(Nodes(v), Depth(v))
            /\ v.source = None => res.out = Line(v)
            /\ v.source # None =>
                 res.out = fmt(v.source[1].val) \o Separator \o Line(v)

Wit_C1 ==
    /\ res.op = "fmt"
    /\ Depth(x[1]) = 3
    /\ x[1].description = None
    /\ x[1].source[1].val.description # None
    /\ x[1].name # x[1].source[1].val.name

(* -------------------------------- C2 ----------------------------------- *)

\* The positions of out where the "<Name>: " of a type of the chain occurs.
PrefixOccurrences(v, out) ==
    UNION { Occurrences(stringify(Nodes(v)[i].name) \o ColonSpace, out) :
              i \in 1..Depth(v) }

\* C2 as stated: whatever the descriptions are, the rendering of a chain of
\* k instances holds the separator k - 1 times and a "<Name>: " k times.
Cex_C2 ==
    res.op = "fmt" =>
        /\ Cardinality(Occurrences(Separator, res.out)) = Depth(x[1]) - 1
        /\ Cardinality(PrefixOccurrences(x[1], res.out)) = Depth(x[1])

\* C2, amended: when no description of the chain holds a line break or a
\* ": ", the rendering holds the separator k - 1 times and ": " k times, and
\* the i-th ": " comes right after the type name of the i-th instance from
\* the leaf.
Thm_C2 ==
    (res.op = "fmt" /\ PlainDescriptions(x[1])) =>
        LET v == x[1]
            k == Depth(v)
            colons == Occurrences(ColonSpace, res.out)
        IN  /\ Cardinality(Occurrences(Separator, res.out)) = k - 1
            /\ Cardinality(colons) = k
            /\ \A c \in colons :
                 LET i == Cardinality({b \in colons : b <= c})
                     name == stringify(Nodes(v)[i].name)
                 IN  /\ c > Len(name)
                     /\ SubSeq(res.out, c - Len(name), c - 1) = name
                     /\ \/ c - Len(name) = 1
                        \/ res.out[c - Len(name) - 1] = "\n"

Wit_C2 ==
    /\ res.op = "fmt"
    /\ PlainDescriptions(x[1])
    /\ Depth(x[1]) = 3
    /\ \E i \in 1..3 : Nodes(x[1])[i].description # None
    /\ x[1].name = "TestingError"
    /\ x[1].source[1].val.name = "PublicTestingError"

(* -------------------------------- C3 ----------------------------------- *)

\* C3: every constructor returns an instance, and its fields are what the
\* constructor was given: no source and no description from new, the
\* description from with_description, the boxed source from with_source, both
\* from with_source_and_description, the two options as passed from
\* with_optional_data.
Thm_C3 ==
    /\ res.op \in {"new", "with_description", "with_source",
                   "with_source_and_description", "with_optional_data"}
         => x # None /\ x[1].name = res.name
    /\ res.op = "new" =>
         x[1].source = None /\ x[1].description = None
    /\ res.op = "with_description" =>
         x[1].source = None /\ x[1].description = Some(res.description)
    /\ res.op = "with_source" =>
         /\ x[1].source # None
         /\ x[1].source[1].val = res.source
         /\ x[1].description = None
    /\ res.op = "with_source_and_description" =>
         /\ x[1].source # None
         /\ x[1].source[1].val = res.source
         /\ x[1].description = Some(res.description)
    /\ res.op = "with_optional_data" =>
         /\ x[1].source = res.source
         /\ x[1].description = res.description
         /\ x[1].T = res.T

Wit_C3 ==
    /\ res.op = "with_source_and_description"
    /\ res.source.source # None
    /\ x[1].description # None
    /\ Depth(x[1]) = 3

(* -------------------------------- C4 ----------------------------------- *)

\* C4: an instance whose type parameter is Infallible, x or an instance of
\* x's chain, holds no source, and its source() returns None.
Thm_C4 ==
    x # None =>
        \A i \in 1..Depth(x[1]) :
            LET v == Nodes(x[1])[i]
            IN  v.T = Infallible => v.source = None /\ source(v) = None

Wit_C4 ==
    /\ res.op = "source"
    /\ x[1].T = Infallible
    /\ x[1].description # None
    /\ res.ret = None

(* -------------------------------- C5 ----------------------------------- *)

\* C5: into_dynamic keeps the description, keeps the source (the same box,
\* now a Box<dyn Error>) or its absence, and so the rendering and whether
\* source() is some.
Thm_C5 ==
    res.op = "into_dynamic" =>
        LET y == x[1]
            self == res.self
        IN  /\ y.T = DynError
            /\ y.name = self.name
            /\ y.description = self.description
            /\ y.source = self.source
            /\ fmt(y) = fmt(self)
            /\ (source(y) # None) = (source(self) # None)

Wit_C5 ==
    /\ res.op = "into_dynamic"
    /\ res.self.source # None
    /\ res.self.description # None
    /\ source(x[1]) # None

(* -------------------------------- C6 ----------------------------------- *)

\* C6: two instances of one type are equal exactly when their sources hold
\* equal values, or are both absent, and their descriptions are equal; the
\* addresses of the boxes do not count.
Thm_C6 ==
    res.op = "eq" =>
        /\ TypeOf(res.other) = TypeOf(x[1])
        /\ res.val = (/\ ValOpt(x[1].source) = ValOpt(res.other.source)
                      /\ x[1].description = res.other.description)

Wit_C6 ==
    /\ res.op = "eq"
    /\ res.val
    /\ x[1].source # None
    /\ x[1].description # None
    /\ res.other.source[1].addr # x[1].source[1].addr

\* The other presence combinations and the unequal cases are compared too.
Wit_C6_cases ==
    /\ res.op = "eq"
    /\ ~res.val
    /\ x[1].source # None
    /\ res.other.source # None
    /\ x[1].description = res.other.description

(* -------------------------------- C7 ----------------------------------- *)

\* C7: a clone is equal to the instance it was made from, holds the same
\* chain and description in boxes of its own, renders the same and hashes
\* the same; and two instances that compare equal hash the same.
Thm_C7 ==
    /\ res.op = "clone" =>
         /\ eq(res.val, x[1])
         /\ Val(res.val) = Val(x[1])
         /\ AddrsOf(res.val) \cap AddrsOf(x[1]) = {}
         /\ fmt(res.val) = fmt(x[1])
         /\ hash(res.val) = hash(x[1])
    /\ (res.op = "eq" /\ res.val) => hash(res.other) = hash(x[1])

Wit_C7 ==
    /\ res.op = "clone"
    /\ Depth(x[1]) = 3
    /\ x[1].description # None
    /\ res.val # x[1]

(* -------------------------------- C8 ----------------------------------- *)

\* C8 as stated: a default instance is the instance new() returns.
Cex_C8 ==
    res.op = "default" => x[1] = new(res.name)

\* C8, amended: a default instance holds no source and no description, the
\* fields of what new() returns; it is of a type whose T has a default, which
\* the N<Infallible> of new() is not.
Thm_C8 ==
    res.op = "default" =>
        /\ x[1].name = res.name
        /\ x[1].source = None
        /\ x[1].description = None
        /\ x[1].source = new(res.name).source
        /\ x[1].description = new(res.name).description
        /\ ImplDefault(x[1].T)
        /\ x[1].T # new(res.name).T

Wit_C8 ==
    /\ res.op = "default"
    /\ x[1].T = StringTy
    /\ x[1].name = "TestingError"

(* -------------------------------- C9 ----------------------------------- *)

\* C9: formatting, source(), clone, comparison and hashing leave the
\* instance as it is; an absent description stays absent when the
\* placeholder is written.
Thm_C9 ==
    [][res'.op \in ReadOps => x' = x]_vars

Wit_C9 ==
    /\ res.op = "fmt"
    /\ x[1].description = None
    /\ x[1].source # None
    /\ SubSeq(res.out, Len(res.out) - Len(Placeholder) + 1, Len(res.out))
         = Placeholder

(* -------------------------------- C10 ---------------------------------- *)

\* C10: the chain is finite and without a cycle: every source is a shorter
\* chain in a box of its own, and a walk by source() from the outermost of k
\* instances gets some k - 1 times and then None; source() is None exactly
\* when no source is stored.
Thm_C10 ==
    x # None =>
        LET v == x[1]
            k == Depth(v)
        IN  /\ Cardinality(AddrsOf(v)) = k - 1
            /\ \A i \in 1..k :
                 LET n == Nodes(v)[i]
                 IN  /\ Depth(n) = i
                     /\ (source(n) = None) = (n.source = None)
                     /\ source(n) # None => source(n)[1] = Nodes(v)[i - 1]
            /\ res.op = "source" =>
                 /\ res.calls <= k
                 /\ (res.ret = None) = (res.calls = k)
                 /\ res.ret # None => res.ret[1] = Nodes(v)[k - res.calls]

Wit_C10 ==
    /\ res.op = "source"
    /\ Depth(x[1]) = 3
    /\ res.calls = 3
    /\ res.ret = None
    /\ x[1].T = DynError
    /\ x[1].source[1].val.T # DynError

====
